---- MODULE Spec2Model ----
(***************************************************************************)
(* A model of son-validate (src/src/son/validate/validate.py): the         *)
(* Validator instance, its configuration, its three scoped entry points    *)
(* and the staged pipeline syntax -> integrity -> topology.                *)
(*                                                                         *)
(* Descriptors are values: a service or function descriptor is a record    *)
(* of what its file holds.  Strings that the code splits (connection point *)
(* keys) are sequences of atoms, ":" being the separator character.        *)
(* A Python return value is one of "True", "None", "False"; a call may     *)
(* also end with "exit" (sys.exit) or "raise" (an uncaught exception).     *)
(***************************************************************************)
EXTENDS Integers, Sequences, FiniteSets, TLC

VARIABLES
    syntax,          \* Validator._syntax
    integrity,       \* Validator._integrity
    topology,        \* Validator._topology
    dpath,           \* Validator._dpath
    dext,            \* Validator._dext
    warnings_count,  \* Validator._warnings_count
    alive,           \* FALSE once sys.exit(1) has ended the process
    world,           \* the descriptor files on disk; no operation writes them
    last             \* the most recent top-level call since configure

vars == <<syntax, integrity, topology, dpath, dext, warnings_count, alive, world, last>>

-----------------------------------------------------------------------------
(* Bounds of the model.                                                    *)

MaxWarnings == 2     \* calls that would push the counter past this are cut
MaxDirFiles == 2     \* files in a directory of function descriptors
MaxEntries == 2      \* entries of a service's function list
MaxKeyLen == 3       \* atoms of a connection point key
MaxHops == 4         \* hops of a forwarding path
MaxPaths == 2        \* forwarding paths of a service
MaxRing == 4         \* nodes of a ring
MaxEdges == 3        \* edges of a graph handed to the cycle detector

-----------------------------------------------------------------------------
(* Sequences and strings.                                                  *)

Range(s) == {s[i] : i \in 1..Len(s)}

Contains(s, x) == \E i \in 1..Len(s) : s[i] = x

\* list.index(x): the first position of x
IndexOf(s, x) == CHOOSE i \in 1..Len(s) : s[i] = x /\ \A j \in 1..(i - 1) : s[j] # x

\* list.count(x)
Count(s, x) == Cardinality({i \in 1..Len(s) : s[i] = x})

\* neighbors.pop(neighbors.index(x))
RemoveFirst(s, x) ==
    LET i == IndexOf(s, x)
    IN  SubSeq(s, 1, i - 1) \o SubSeq(s, i + 1, Len(s))

CXPT_KEY_SEPARATOR == ":"

\* str.split(sep): the pieces between separators, empty pieces included
RECURSIVE Split(_, _)
Split(s, sep) ==
    IF ~Contains(s, sep)
    THEN <<s>>
    ELSE LET i == IndexOf(s, sep)
         IN  <<SubSeq(s, 1, i - 1)>> \o Split(SubSeq(s, i + 1, Len(s)), sep)

-----------------------------------------------------------------------------
(* Undirected graphs as networkx keeps them: nodes in insertion order and, *)
(* per node, its neighbours in insertion order.                            *)

EmptyGraph == [nodes |-> <<>>, adj |-> <<>>]

HasNode(g, n) == Contains(g.nodes, n)

Neighbors(g, n) == g.adj[IndexOf(g.nodes, n)]

AddNode(g, n) ==
    IF HasNode(g, n) THEN g
    ELSE [nodes |-> Append(g.nodes, n), adj |-> Append(g.adj, <<>>)]

AddHalfEdge(g, u, v) ==
    IF Contains(Neighbors(g, u), v) THEN g
    ELSE [g EXCEPT !.adj[IndexOf(g.nodes, u)] = Append(@, v)]

AddEdge(g, u, v) == AddHalfEdge(AddHalfEdge(AddNode(AddNode(g, u), v), u, v), v, u)

HasEdge(g, u, v) == HasNode(g, u) /\ Contains(Neighbors(g, u), v)

\* Graph.add_path(nodes): the edges between consecutive entries, nothing else
RECURSIVE AddPath(_, _)
AddPath(g, p) ==
    IF Len(p) < 2 THEN g
    ELSE AddPath(AddEdge(g, p[1], p[2]), Tail(p))

RECURSIVE ReachFrom(_, _)
ReachFrom(g, seen) ==
    LET more == seen \cup UNION {Range(Neighbors(g, n)) : n \in seen}
    IN  IF more = seen THEN seen ELSE ReachFrom(g, more)

\* nx.is_connected: "yes", "no", or "raise" on a graph without nodes
IsConnected(g) ==
    IF Len(g.nodes) = 0 THEN "raise"
    ELSE IF ReachFrom(g, {g.nodes[1]}) = Range(g.nodes) THEN "yes" ELSE "no"

-----------------------------------------------------------------------------
(* Validator._find_graph_cycles.  prev is <<>> for None, else <<node>>.    *)
(* The result is <<>> for None, else <<cycle>>.                            *)

RECURSIVE FindGraphCycles(_, _, _, _)
FindGraphCycles(graph, node, prev, backtrace) ==
    LET all == Neighbors(graph, node)
        neighbors == IF prev # <<>> /\ prev[1] # <<>>
                     THEN RemoveFirst(all, prev[1])
                     ELSE all
    IN  IF ~(Len(neighbors) > 0) THEN <<>>
        ELSE IF Contains(backtrace, node)
        THEN <<SubSeq(backtrace, IndexOf(backtrace, node), Len(backtrace))>>
        ELSE FindGraphCycles(graph, neighbors[1], <<node>>, Append(backtrace, node))

\* "if cycles and len(cycles) > 0"
CyclesFound(r) == r # <<>> /\ Len(r[1]) > 0

-----------------------------------------------------------------------------
(* Results and events.  A step of the pipeline yields a result, the events *)
(* it logged and the warning counter it leaves.                            *)

Out(res, log, wc) == [res |-> res, log |-> log, wc |-> wc]

Ev(ev, scope, who, stage, ok, n) ==
    [ev |-> ev, scope |-> scope, who |-> who, stage |-> stage, ok |-> ok, n |-> n]

\* a; b  where a falsy or raising result of a ends the enclosing function
Then(a, b) ==
    IF a.res # "True" THEN a
    ELSE [res |-> b.res, log |-> a.log \o b.log, wc |-> b.wc]

Skip(wc) == Out("True", <<>>, wc)

\* the events of `o` wrapped in the begin and end of a stage
Stage(scope, who, stage, o) ==
    Out(o.res,
        <<Ev("begin", scope, who, stage, "-", 0)>> \o o.log \o
        <<Ev("end", scope, who, stage,
             IF o.res = "True" THEN "pass" ELSE IF o.res = "raise" THEN "raise" ELSE "fail", 0)>>,
        o.wc)

Cfg(s, i, t, dp, de) == [syntax |-> s, integrity |-> i, topology |-> t, dpath |-> dp, dext |-> de]

-----------------------------------------------------------------------------
(* Validator._assert_configuration, for a caller that is one of the three  *)
(* entry points.  "exit" is sys.exit(1).                                   *)

AssertNoSyntaxRule(cfg, caller) ==
    IF cfg.topology /\ ~cfg.integrity THEN "exit"
    ELSE IF caller = "validate_service"
            /\ (cfg.integrity \/ cfg.topology)
            /\ ~(cfg.dpath # "" /\ cfg.dext # "")
    THEN "exit"
    ELSE "ok"

AssertConfiguration(cfg, caller) ==
    IF caller \notin {"validate_function", "validate_service", "validate_project"} THEN "exit"
    ELSE IF cfg.integrity /\ ~cfg.syntax THEN "exit"
    ELSE IF cfg.topology /\ ~cfg.integrity THEN "exit"
    ELSE IF caller = "validate_service"
            /\ (cfg.integrity \/ cfg.topology)
            /\ ~(cfg.dpath # "" /\ cfg.dext # "")
    THEN "exit"
    ELSE "ok"

-----------------------------------------------------------------------------
(* Descriptor Store, Schema Gate and file discovery (son.validate.objects, *)
(* son.schema.validator, son.validate.util).                               *)

BREAK == <<"BREAK">>

\* list_files(path, ext): the files of the directory with that extension
ListFiles(files, ext) == SelectSeq(files, LAMBDA f : f.ext = ext)

\* build_descriptor_id(vendor, name, version)
BuildDescriptorId(vendor, name, version) == <<vendor, ".", name, ".", version>>

FunctionId(fn) == BuildDescriptorId(fn.vendor, fn.name, fn.version)

\* read_descriptor_files(files): descriptor id -> file, of the readable files;
\* a later file of the same id replaces an earlier one
ReadDescriptorFiles(files) == SelectSeq(files, LAMBDA f : f.parse)

PathVnfsHas(path_vnfs, fid) == \E i \in 1..Len(path_vnfs) : FunctionId(path_vnfs[i]) = fid

PathVnfsGet(path_vnfs, fid) ==
    path_vnfs[CHOOSE i \in 1..Len(path_vnfs) :
                 /\ FunctionId(path_vnfs[i]) = fid
                 /\ \A j \in (i + 1)..Len(path_vnfs) : FunctionId(path_vnfs[j]) # fid]

\* Service.associate_function(function, vnf_id): functions[vnf_id] = function
AssociateFunction(functions, fn, vnf_id) ==
    IF \E i \in 1..Len(functions) : functions[i].vnf_id = vnf_id
    THEN [i \in 1..Len(functions) |->
             IF functions[i].vnf_id = vnf_id THEN [vnf_id |-> vnf_id, fn |-> fn]
             ELSE functions[i]]
    ELSE Append(functions, [vnf_id |-> vnf_id, fn |-> fn])

\* Service.mapped_function(vnf_id) is not None
MappedFunction(functions, vnf_id) == \E i \in 1..Len(functions) : functions[i].vnf_id = vnf_id

\* Service.trace_path(path): the hops, with BREAK after a hop that has no
\* edge to the next one
RECURSIVE TracePath(_, _)
TracePath(graph, path) ==
    IF Len(path) = 0 THEN <<>>
    ELSE IF Len(path) = 1 THEN <<path[1]>>
    ELSE <<path[1]>>
         \o (IF HasEdge(graph, path[1], path[2]) THEN <<>> ELSE <<BREAK>>)
         \o TracePath(graph, Tail(path))

RECURSIVE AddNodes(_, _)
AddNodes(g, ns) == IF ns = <<>> THEN g ELSE AddNodes(AddNode(g, Head(ns)), Tail(ns))

RECURSIVE AddLinks(_, _, _)
AddLinks(g, links, link_type) ==
    IF links = <<>> THEN g
    ELSE AddLinks(IF Head(links).type = link_type
                  THEN AddEdge(g, Head(links).pair[1], Head(links).pair[2])
                  ELSE g,
                  Tail(links), link_type)

\* Function.build_topology_graph(link_type): the function's connection points
\* and its links of that type
FunctionGraph(fn, link_type) == AddLinks(AddNodes(EmptyGraph, fn.ifaces), fn.links, link_type)

\* the connection points a resolved function adds to the service graph:
\* its own-level interfaces, qualified by the vnf_id
QualifiedIfaces(f) ==
    LET own == SelectSeq(f.fn.ifaces, LAMBDA k : ~Contains(k, CXPT_KEY_SEPARATOR))
    IN  [i \in 1..Len(own) |-> f.vnf_id \o <<CXPT_KEY_SEPARATOR>> \o own[i]]

RECURSIVE AddFunctionNodes(_, _)
AddFunctionNodes(g, functions) ==
    IF functions = <<>> THEN g
    ELSE AddFunctionNodes(AddNodes(g, QualifiedIfaces(Head(functions))), Tail(functions))

\* Service.build_topology_graph(deep=False, interfaces=True, link_type)
ServiceGraph(svc, functions, link_type) ==
    AddLinks(AddFunctionNodes(AddNodes(EmptyGraph, svc.ifaces), functions), svc.links, link_type)

-----------------------------------------------------------------------------
(* Function scope.                                                         *)

Load(scope, who, what, ok) == Ev("load", scope, who, what, IF ok THEN "pass" ELSE "fail", 0)

\* Validator._validate_function_syntax
ValidateFunctionSyntax(function, wc) ==
    Out(IF function.syntax THEN "True" ELSE "None", <<>>, wc)

\* one key of a function link: the test of lines 375-382
FunctionKeyStrict(function, iface) ==
    LET iface_tokens == Split(iface, CXPT_KEY_SEPARATOR)
    IN  ~(Len(iface_tokens) = 2 /\ iface_tokens[1] \notin function.units)

FunctionKeyOk(function, iface) ==
    LET iface_tokens == Split(iface, CXPT_KEY_SEPARATOR)
    IN  ~(Len(iface_tokens) > 1 /\ iface_tokens[1] \notin function.units)

\* the loop of lines 373-382: no key of any link is refused
FunctionLinksOk(function) ==
    \A i \in 1..Len(function.links) :
        \A j \in 1..2 : FunctionKeyOk(function, function.links[i].pair[j])

\* Validator._validate_function_integrity
ValidateFunctionIntegrity(function, wc) ==
    LET who == function.file
        l1 == <<Load("function", who, "interfaces", function.ld_if)>>
        l2 == l1 \o <<Load("function", who, "units", function.ld_units)>>
        l3 == l2 \o <<Load("function", who, "unit_interfaces", function.ld_uif)>>
        l4 == l3 \o <<Load("function", who, "links", function.ld_links)>>
    IN  IF ~function.ld_if THEN Out("None", l1, wc)
        ELSE IF ~function.ld_units THEN Out("None", l2, wc)
        ELSE IF ~function.ld_uif THEN Out("None", l3, wc)
        ELSE IF ~function.ld_links THEN Out("None", l4, wc)
        ELSE IF ~FunctionLinksOk(function)
        THEN Out("None", l4 \o <<Ev("link_check", "function", who, "integrity", "fail", 0)>>, wc)
        ELSE Out("True", l4 \o <<Ev("link_check", "function", who, "integrity", "pass", 0)>>, wc)

\* Validator._validate_function_topology
FunctionTopologyNoCount(function, wc) ==
    LET graph == FunctionGraph(function, "e-line")
    IN  IF Len(graph.nodes) = 0
        THEN Out("raise", <<Ev("graph", "function", function.file, "topology", "raise", 0)>>, wc)
        ELSE LET cycles == FindGraphCycles(graph, graph.nodes[1], <<>>, <<>>)
             IN  IF CyclesFound(cycles)
                 THEN Out("True", <<Ev("graph", "function", function.file, "topology", "cycle", 0)>>, wc)
                 ELSE Out("True", <<Ev("graph", "function", function.file, "topology", "nocycle", 0)>>, wc)

ValidateFunctionTopology(function, wc) ==
    LET graph == FunctionGraph(function, "e-line")
    IN  IF Len(graph.nodes) = 0
        THEN Out("raise", <<Ev("graph", "function", function.file, "topology", "raise", 0)>>, wc)
        ELSE LET cycles == FindGraphCycles(graph, graph.nodes[1], <<>>, <<>>)
             IN  IF CyclesFound(cycles)
                 THEN Out("True", <<Ev("graph", "function", function.file, "topology", "cycle", 0)>>, wc + 1)
                 ELSE Out("True", <<Ev("graph", "function", function.file, "topology", "nocycle", 0)>>, wc)

\* the three stages of validate_function on one file, lines 245-254
FunctionStagesNoShortCircuit(cfg, function, wc) ==
    LET s1 == IF cfg.syntax
              THEN Stage("function", function.file, "syntax", ValidateFunctionSyntax(function, wc))
              ELSE Skip(wc)
        s2 == IF cfg.integrity
              THEN Stage("function", function.file, "integrity", ValidateFunctionIntegrity(function, wc))
              ELSE Skip(wc)
        s3 == IF cfg.topology
              THEN Stage("function", function.file, "topology", ValidateFunctionTopology(function, wc))
              ELSE Skip(wc)
    IN  Out(IF s1.res # "True" THEN s1.res ELSE IF s2.res # "True" THEN s2.res ELSE s3.res,
            s1.log \o s2.log \o s3.log, s3.wc)

FunctionStages(cfg, function, wc) ==
    LET s1 == IF cfg.syntax
              THEN Stage("function", function.file, "syntax", ValidateFunctionSyntax(function, wc))
              ELSE Skip(wc)
        s2 == IF cfg.integrity
              THEN Stage("function", function.file, "integrity", ValidateFunctionIntegrity(function, wc))
              ELSE Skip(wc)
        s3 == IF cfg.topology
              THEN Stage("function", function.file, "topology", ValidateFunctionTopology(function, wc))
              ELSE Skip(wc)
    IN  Then(s1, Then(s2, s3))

\* validate_function on a file, lines 224 and 236-254
ValidateFunctionFile(cfg, function, wc) ==
    IF AssertConfiguration(cfg, "validate_function") = "exit" THEN Out("exit", <<>>, wc)
    ELSE LET created == Ev("create", "function", function.file, "-",
                           IF function.parse THEN "pass" ELSE "fail", 0)
         IN  IF ~function.parse THEN Out("None", <<created>>, wc)
             ELSE Then(Out("True", <<created>>, wc), FunctionStages(cfg, function, wc))

\* the loop of lines 231-234 over the files found in the directory
RECURSIVE ValidateEachNoStop(_, _, _)
ValidateEachNoStop(cfg, vnfd_files, wc) ==
    IF vnfd_files = <<>> THEN Out("True", <<>>, wc)
    ELSE LET one == ValidateFunctionFile(cfg, Head(vnfd_files), wc)
             rest == ValidateEachNoStop(cfg, Tail(vnfd_files), one.wc)
         IN  Out(IF one.res # "True" THEN one.res ELSE rest.res, one.log \o rest.log, rest.wc)

RECURSIVE ValidateEach(_, _, _)
ValidateEach(cfg, vnfd_files, wc) ==
    IF vnfd_files = <<>> THEN Out("True", <<>>, wc)
    ELSE LET one == ValidateFunctionFile(cfg, Head(vnfd_files), wc)
         IN  Then(one, ValidateEach(cfg, Tail(vnfd_files), one.wc))

\* validate_function on a directory, lines 224-234
ValidateFunctionDir(cfg, files, wc) ==
    IF AssertConfiguration(cfg, "validate_function") = "exit" THEN Out("exit", <<>>, wc)
    ELSE ValidateEach(cfg, ListFiles(files, cfg.dext), wc)

-----------------------------------------------------------------------------
(* Service scope.  A loader step yields, besides its result, the functions *)
(* associated with the service so far.                                     *)

OutF(res, log, functions) == [res |-> res, log |-> log, functions |-> functions]

\* the loop of lines 502-513 from entry n on
RECURSIVE StoreFunctionsSkip(_, _, _, _)
StoreFunctionsSkip(items, n, path_vnfs, functions) ==
    IF n > Len(items) THEN OutF("True", <<>>, functions)
    ELSE LET function == items[n]
             fid == BuildDescriptorId(function.vnf_vendor, function.vnf_name, function.vnf_version)
         IN  IF ~PathVnfsHas(path_vnfs, fid)
             THEN StoreFunctionsSkip(items, n + 1, path_vnfs, functions)
             ELSE LET new_func == PathVnfsGet(path_vnfs, fid)
                      rest == StoreFunctionsSkip(items, n + 1, path_vnfs,
                                                 AssociateFunction(functions, new_func, function.vnf_id))
                  IN  OutF(rest.res,
                           <<Ev("create", "function", new_func.file, "-", "pass", 0),
                             Ev("associate", "service", new_func.file, "integrity", "pass", n)>>
                           \o rest.log,
                           rest.functions)

RECURSIVE StoreFunctions(_, _, _, _)
StoreFunctions(items, n, path_vnfs, functions) ==
    IF n > Len(items) THEN OutF("True", <<>>, functions)
    ELSE LET function == items[n]
             fid == BuildDescriptorId(function.vnf_vendor, function.vnf_name, function.vnf_version)
         IN  IF ~PathVnfsHas(path_vnfs, fid)
             THEN OutF("None", <<Ev("unresolved", "service", "-", "integrity", "fail", n)>>, functions)
             ELSE LET new_func == PathVnfsGet(path_vnfs, fid)
                      rest == StoreFunctions(items, n + 1, path_vnfs,
                                             AssociateFunction(functions, new_func, function.vnf_id))
                  IN  OutF(rest.res,
                           <<Ev("create", "function", new_func.file, "-", "pass", 0),
                             Ev("associate", "service", new_func.file, "integrity", "pass", n)>>
                           \o rest.log,
                           rest.functions)

\* Validator._load_service_functions
LoadServiceFunctionsRejectEmpty(cfg, service, files) ==
    LET path_vnfs == ReadDescriptorFiles(ListFiles(files, cfg.dext))
        nf == service.network_functions
    IN  IF nf.kind = "missing" THEN OutF("None", <<>>, <<>>)
        ELSE IF nf.kind = "list" /\ nf.items = <<>> THEN OutF("None", <<>>, <<>>)
        ELSE IF nf.kind = "list" /\ nf.items # <<>> /\ path_vnfs = <<>> THEN OutF("None", <<>>, <<>>)
        ELSE IF nf.kind = "null" THEN OutF("raise", <<>>, <<>>)
        ELSE StoreFunctions(nf.items, 1, path_vnfs, <<>>)

LoadServiceFunctions(cfg, service, files) ==
    LET path_vnfs == ReadDescriptorFiles(ListFiles(files, cfg.dext))
        nf == service.network_functions
    IN  IF nf.kind = "missing" THEN OutF("None", <<>>, <<>>)
        ELSE IF nf.kind = "list" /\ nf.items # <<>> /\ path_vnfs = <<>> THEN OutF("None", <<>>, <<>>)
        ELSE IF nf.kind = "null" THEN OutF("raise", <<>>, <<>>)
        ELSE StoreFunctions(nf.items, 1, path_vnfs, <<>>)

\* one key of a service link: the test of lines 314-328
ServiceKeyAnyFunction(service, functions, iface) ==
    \/ Contains(service.ifaces, iface)
    \/ LET iface_tokens == Split(iface, CXPT_KEY_SEPARATOR)
       IN  Len(iface_tokens) = 2

ServiceKeyOk(service, functions, iface) ==
    \/ Contains(service.ifaces, iface)
    \/ LET iface_tokens == Split(iface, CXPT_KEY_SEPARATOR)
       IN  /\ Len(iface_tokens) = 2
           /\ MappedFunction(functions, iface_tokens[1])

\* the loop of lines 312-328
ServiceLinksOk(service, functions) ==
    \A i \in 1..Len(service.links) :
        \A j \in 1..2 : ServiceKeyOk(service, functions, service.links[i].pair[j])

\* the loop of lines 331-333 over the functions of the service
RECURSIVE ValidateServiceFunctionsNoStop(_, _, _)
ValidateServiceFunctionsNoStop(cfg, functions, wc) ==
    IF functions = <<>> THEN Out("True", <<>>, wc)
    ELSE LET one == ValidateFunctionFile(cfg, Head(functions).fn, wc)
             rest == ValidateServiceFunctionsNoStop(cfg, Tail(functions), one.wc)
         IN  Out(IF one.res # "True" THEN one.res ELSE rest.res, one.log \o rest.log, rest.wc)

RECURSIVE ValidateServiceFunctions(_, _, _)
ValidateServiceFunctions(cfg, functions, wc) ==
    IF functions = <<>> THEN Out("True", <<>>, wc)
    ELSE LET one == ValidateFunctionFile(cfg, Head(functions).fn, wc)
         IN  Then(one, ValidateServiceFunctions(cfg, Tail(functions), one.wc))

\* Validator._validate_service_integrity; the functions it resolved ride along
ValidateServiceIntegrity(cfg, service, files, wc) ==
    LET who == service.file
        lf == LoadServiceFunctions(cfg, service, files)
        l1 == lf.log \o <<Load("service", who, "interfaces", service.ld_if)>>
        l2 == l1 \o <<Load("service", who, "links", service.ld_links)>>
        withF(o) == [res |-> o.res, log |-> o.log, wc |-> o.wc, functions |-> lf.functions]
    IN  IF lf.res # "True" THEN withF(Out(lf.res, lf.log, wc))
        ELSE IF ~service.ld_if THEN withF(Out("None", l1, wc))
        ELSE IF ~service.ld_links THEN withF(Out("None", l2, wc))
        ELSE IF ~ServiceLinksOk(service, lf.functions)
        THEN withF(Out("None", l2 \o <<Ev("link_check", "service", who, "integrity", "fail", 0)>>, wc))
        ELSE withF(Then(Out("True", l2 \o <<Ev("link_check", "service", who, "integrity", "pass", 0)>>, wc),
                        ValidateServiceFunctions(cfg, lf.functions, wc)))

\* the loop of lines 412-429 from path n on
RECURSIVE AnalysePathsCountBreaks(_, _, _, _)
AnalysePathsCountBreaks(graph, fw_paths, n, wc) ==
    IF n > Len(fw_paths) THEN Out("True", <<>>, wc)
    ELSE LET trace == TracePath(graph, fw_paths[n])
             fpg == AddPath(EmptyGraph, trace)
             next(k, w) == LET rest == AnalysePathsCountBreaks(graph, fw_paths, n + 1, w)
                           IN  Out(rest.res, <<Ev("path", "service", "-", "topology", k, n)>> \o rest.log, rest.wc)
         IN  IF Contains(trace, BREAK) THEN next("break", wc + 1)
             ELSE IF Len(fpg.nodes) = 0
             THEN Out("raise", <<Ev("path", "service", "-", "topology", "raise", n)>>, wc)
             ELSE IF CyclesFound(FindGraphCycles(fpg, fpg.nodes[1], <<>>, <<>>))
             THEN next("cycle", wc + 1)
             ELSE next("nocycle", wc)

RECURSIVE AnalysePaths(_, _, _, _)
AnalysePaths(graph, fw_paths, n, wc) ==
    IF n > Len(fw_paths) THEN Out("True", <<>>, wc)
    ELSE LET trace == TracePath(graph, fw_paths[n])
             fpg == AddPath(EmptyGraph, trace)
             next(k, w) == LET rest == AnalysePaths(graph, fw_paths, n + 1, w)
                           IN  Out(rest.res, <<Ev("path", "service", "-", "topology", k, n)>> \o rest.log, rest.wc)
         IN  IF Contains(trace, BREAK) THEN next("break", wc)
             ELSE IF Len(fpg.nodes) = 0
             THEN Out("raise", <<Ev("path", "service", "-", "topology", "raise", n)>>, wc)
             ELSE IF CyclesFound(FindGraphCycles(fpg, fpg.nodes[1], <<>>, <<>>))
             THEN next("cycle", wc + 1)
             ELSE next("nocycle", wc)

ValidateServiceTopologyExportFirst(service, functions, wc) ==
    LET who == service.file
        graph == ServiceGraph(service, functions, "e-line")
        connected == IsConnected(graph)
        l1 == <<Ev("connected", "service", who, "topology", connected, 0),
                Ev("export", "service", who, "topology", "pass", 0)>>
        l2 == l1 \o <<Load("service", who, "forwarding_paths", service.ld_fwp)>>
    IN  IF connected = "raise" THEN Out("raise", l1, wc)
        ELSE IF ~service.ld_fwp THEN Out("None", l2, wc)
        ELSE Then(Out("True", l2, wc), AnalysePaths(graph, service.fw_paths, 1, wc))

\* Validator._validate_service_topology
ValidateServiceTopology(service, functions, wc) ==
    LET who == service.file
        graph == ServiceGraph(service, functions, "e-line")
        connected == IsConnected(graph)
        l1 == <<Ev("connected", "service", who, "topology", connected, 0)>>
        l2 == l1 \o <<Load("service", who, "forwarding_paths", service.ld_fwp)>>
    IN  IF connected = "raise" THEN Out("raise", l1, wc)
        ELSE IF ~service.ld_fwp THEN Out("None", l2, wc)
        ELSE LET paths == AnalysePaths(graph, service.fw_paths, 1, wc)
             IN  Then(Then(Out("True", l2, wc), paths),
                      Out("True", <<Ev("export", "service", who, "topology", "pass", 0)>>, paths.wc))

\* the three stages of validate_service, lines 203-213
ServiceStages(cfg, service, files, wc) ==
    LET s1 == IF cfg.syntax
              THEN Stage("service", service.file, "syntax",
                         Out(IF service.syntax THEN "True" ELSE "None", <<>>, wc))
              ELSE Skip(wc)
        i2 == ValidateServiceIntegrity(cfg, service, files, wc)
        s2 == IF cfg.integrity
              THEN Stage("service", service.file, "integrity", Out(i2.res, i2.log, i2.wc))
              ELSE Skip(wc)
        s3 == IF cfg.topology
              THEN Stage("service", service.file, "topology",
                         ValidateServiceTopology(service,
                                                 IF cfg.integrity THEN i2.functions ELSE <<>>, s2.wc))
              ELSE Skip(s2.wc)
    IN  Then(s1, Then(s2, s3))

\* validate_service: nsd_file is <<>> for a name that is no file (False),
\* else <<the descriptor the file holds>>
ValidateService(cfg, nsd_file, files, wc) ==
    IF AssertConfiguration(cfg, "validate_service") = "exit" THEN Out("exit", <<>>, wc)
    ELSE IF nsd_file = <<>> THEN Out("None", <<Ev("create", "service", "-", "-", "fail", 0)>>, wc)
    ELSE LET service == nsd_file[1]
             created == Ev("create", "service", service.file, "-",
                           IF service.parse THEN "pass" ELSE "fail", 0)
         IN  IF ~service.parse THEN Out("None", <<created>>, wc)
             ELSE Then(Out("True", <<created>>, wc), ServiceStages(cfg, service, files, wc))

-----------------------------------------------------------------------------
(* Project scope.                                                          *)

\* Validator._load_project_service_file: what it returns, <<>> being False,
\* or that it raised.  With no candidate the text of the log message,
\* "...'[0}'".format(...), is a malformed format string: str.format raises
\* ValueError before anything is logged or returned (lines 527-528).
Returned(nsd_file) == [raised |-> FALSE, nsd_file |-> nsd_file]

Raised == [raised |-> TRUE, nsd_file |-> <<>>]

LoadProjectServiceFileFirst(project) ==
    IF project.nsd_files = <<>> THEN Raised
    ELSE Returned(<<project.nsd_files[1]>>)

LoadProjectServiceFile(project) ==
    IF project.nsd_files = <<>> THEN Raised
    ELSE IF Len(project.nsd_files) > 1 THEN Returned(<<>>)
    ELSE Returned(<<project.nsd_files[1]>>)

Files(fs, path) == IF path \in DOMAIN fs THEN fs[path] ELSE <<>>

ValidateProjectKeepsDirectory(cfg, project, fs, wc) ==
    IF AssertConfiguration(cfg, "validate_project") = "exit"
    THEN [out |-> Out("exit", <<>>, wc), dpath |-> cfg.dpath, dext |-> cfg.dext]
    ELSE LET loaded == LoadProjectServiceFile(project)
         IN  [out |-> IF loaded.raised THEN Out("raise", <<>>, wc)
                      ELSE ValidateService(cfg, loaded.nsd_file, Files(fs, cfg.dpath), wc),
              dpath |-> project.vnfd_root, dext |-> project.descriptor_extension]

ValidateProjectRestores(cfg, project, fs, wc) ==
    IF AssertConfiguration(cfg, "validate_project") = "exit"
    THEN [out |-> Out("exit", <<>>, wc), dpath |-> cfg.dpath, dext |-> cfg.dext]
    ELSE LET cfg2 == [cfg EXCEPT !.dpath = project.vnfd_root,
                                 !.dext = project.descriptor_extension]
             loaded == LoadProjectServiceFile(project)
         IN  [out |-> IF loaded.raised THEN Out("raise", <<>>, wc)
                      ELSE ValidateService(cfg2, loaded.nsd_file, Files(fs, cfg2.dpath), wc),
              dpath |-> cfg.dpath, dext |-> cfg.dext]

\* validate_project: the result, and the directory and extension it leaves
ValidateProject(cfg, project, fs, wc) ==
    IF AssertConfiguration(cfg, "validate_project") = "exit"
    THEN [out |-> Out("exit", <<>>, wc), dpath |-> cfg.dpath, dext |-> cfg.dext]
    ELSE LET cfg2 == [cfg EXCEPT !.dpath = project.vnfd_root,
                                 !.dext = project.descriptor_extension]
             loaded == LoadProjectServiceFile(project)
         IN  [out |-> IF loaded.raised THEN Out("raise", <<>>, wc)
                      ELSE ValidateService(cfg2, loaded.nsd_file, Files(fs, cfg2.dpath), wc),
              dpath |-> cfg2.dpath, dext |-> cfg2.dext]

-----------------------------------------------------------------------------
(* The Validator instance.                                                 *)

\* no call yet since the instance was made or configured, the counter at wc
NoCall(wc) == [op |-> "none", cfg |-> Cfg(TRUE, TRUE, TRUE, ".", "yml"), res |-> "-",
               log |-> <<>>, wc0 |-> wc, wc |-> wc, prev |-> <<>>]

CurrentCfg == Cfg(syntax, integrity, topology, dpath, dext)

\* Validator.__init__, lines 51-77, over a given set of disks
InitWith(Worlds) ==
    /\ syntax = TRUE
    /\ integrity = TRUE
    /\ topology = TRUE
    /\ dext = "yml"
    /\ dpath = "."
    /\ warnings_count = 0
    /\ alive = TRUE
    /\ world \in Worlds
    /\ last = NoCall(0)

\* "if x is not None: self._x = x", an argument being <<>> for None
AssignAlways(old, arg) == IF arg # <<>> THEN arg[1] ELSE FALSE

Assign(old, arg) == IF arg # <<>> THEN arg[1] ELSE old

Flag == {<<>>, <<TRUE>>, <<FALSE>>}

ConfigureArgs ==
    [syntax : Flag, integrity : Flag, topology : Flag, dpath : {<<>>}, dext : {<<>>}]
    \cup [syntax : {<<>>}, integrity : {<<>>}, topology : {<<>>},
          dpath : {<<>>, <<"">>, <<".">>}, dext : {<<>>, <<"">>, <<"yml">>}]

\* Validator.configure
Configure ==
    /\ alive
    /\ \E a \in ConfigureArgs :
        /\ syntax' = Assign(syntax, a.syntax)
        /\ integrity' = Assign(integrity, a.integrity)
        /\ topology' = Assign(topology, a.topology)
        /\ dext' = Assign(dext, a.dext)
        /\ dpath' = Assign(dpath, a.dpath)
    /\ last' = NoCall(warnings_count)
    /\ UNCHANGED <<warnings_count, alive, world>>

\* the record of a top-level call: what it was given, what it returned, what
\* it logged, the counter before and after, and, when the call before it was
\* the same call under the same configuration, that call's result and counter
Record(op, out) ==
    [op |-> op, cfg |-> CurrentCfg, res |-> out.res, log |-> out.log,
     wc0 |-> warnings_count, wc |-> out.wc,
     prev |-> IF last.op = op /\ last.cfg = CurrentCfg
              THEN <<[res |-> last.res, wc |-> warnings_count]>>
              ELSE <<>>]

\* what a top-level call leaves in the instance
Returns ==
    /\ warnings_count' = last'.wc
    /\ warnings_count' <= MaxWarnings
    /\ alive' = (last'.res # "exit")

CallValidateProject ==
    /\ alive
    /\ world.project # <<>>
    /\ last' = Record("validate_project",
                      ValidateProject(CurrentCfg, world.project[1], world.fs, warnings_count).out)
    /\ Returns
    /\ dpath' = ValidateProject(CurrentCfg, world.project[1], world.fs, warnings_count).dpath
    /\ dext' = ValidateProject(CurrentCfg, world.project[1], world.fs, warnings_count).dext
    /\ UNCHANGED <<syntax, integrity, topology, world>>

CallValidateService ==
    /\ alive
    /\ world.nsd # <<>>
    /\ last' = Record("validate_service",
                      ValidateService(CurrentCfg, world.nsd, Files(world.fs, dpath), warnings_count))
    /\ Returns
    /\ UNCHANGED <<syntax, integrity, topology, dpath, dext, world>>

\* validate_function on a path that is a file
CallValidateFunction ==
    /\ alive
    /\ world.fn # <<>>
    /\ last' = Record("validate_function",
                      ValidateFunctionFile(CurrentCfg, world.fn[1], warnings_count))
    /\ Returns
    /\ UNCHANGED <<syntax, integrity, topology, dpath, dext, world>>

\* validate_function on a path that is a directory
CallValidateFunctionDir ==
    /\ alive
    /\ world.dir # <<>>
    /\ last' = Record("validate_functions",
                      ValidateFunctionDir(CurrentCfg, world.dir[1], warnings_count))
    /\ Returns
    /\ UNCHANGED <<syntax, integrity, topology, dpath, dext, world>>

Next ==
    \/ Configure
    \/ CallValidateProject
    \/ CallValidateService
    \/ CallValidateFunction
    \/ CallValidateFunctionDir

-----------------------------------------------------------------------------
(* The disks the checks range over.  A world holds at most one function    *)
(* file, one directory of function files, one service file with the        *)
(* directories its functions are searched in, and one project.             *)

DirPaths == {".", "prj"}

World(fn, dir, nsd, fs, project) ==
    [fn |-> fn, dir |-> dir, nsd |-> nsd, fs |-> fs, project |-> project]

Everywhere(files) == [p \in DirPaths |-> files]

SeqsUpTo(S, n) == UNION {[1..k -> S] : k \in 0..n}

ELine(a, b) == [pair |-> <<a, b>>, type |-> "e-line"]

ELan(a, b) == [pair |-> <<a, b>>, type |-> "e-lan"]

\* a sound function descriptor: one unit, two connection points, one link
BaseFn(file, name) ==
    [file |-> file, ext |-> "yml", vendor |-> "acme", name |-> name, version |-> "1",
     parse |-> TRUE, syntax |-> TRUE,
     ld_if |-> TRUE, ld_units |-> TRUE, ld_uif |-> TRUE, ld_links |-> TRUE,
     units |-> {<<"u1">>},
     ifaces |-> << <<"in">>, <<"u1", ":", "a">> >>,
     links |-> << ELine(<<"in">>, <<"u1", ":", "a">>) >>]

Ring3 == << ELine(<<"in">>, <<"u1", ":", "a">>),
            ELine(<<"u1", ":", "a">>, <<"u1", ":", "b">>),
            ELine(<<"u1", ":", "b">>, <<"in">>) >>

\* the same descriptor with one thing wrong, or one thing special, at a time
FnVariants(f) ==
    { f,
      [f EXCEPT !.parse = FALSE],
      [f EXCEPT !.syntax = FALSE],
      [f EXCEPT !.ld_if = FALSE],
      [f EXCEPT !.ld_units = FALSE],
      [f EXCEPT !.ld_uif = FALSE],
      [f EXCEPT !.ld_links = FALSE],
      [f EXCEPT !.units = {}],
      [f EXCEPT !.links = Ring3],
      [f EXCEPT !.links = <<>>, !.ifaces = <<>>],
      [f EXCEPT !.links = << ELan(<<"in">>, <<"u1", ":", "a">>) >>] }

FileNames == <<"a.yml", "b.yml", "c.yml", "d.yml">>

\* what a file of a directory may hold
DirVariants(file) ==
    LET f == BaseFn(file, "fw")
    IN  { f,
          [f EXCEPT !.parse = FALSE],
          [f EXCEPT !.syntax = FALSE],
          [f EXCEPT !.units = {}],
          [f EXCEPT !.links = Ring3],
          [f EXCEPT !.links = <<>>, !.ifaces = <<>>],
          [f EXCEPT !.ext = "json", !.syntax = FALSE] }

DirListings ==
    UNION { {d \in [1..k -> UNION {DirVariants(FileNames[i]) : i \in 1..k}] :
                \A i \in 1..k : d[i].file = FileNames[i]} : k \in 0..MaxDirFiles }

Entry(name, vnf_id) ==
    [vnf_vendor |-> "acme", vnf_name |-> name, vnf_version |-> "1", vnf_id |-> vnf_id]

NfList(items) == [kind |-> "list", items |-> items]

NfMissing == [kind |-> "missing", items |-> <<>>]

NfNull == [kind |-> "null", items |-> <<>>]

\* a sound service descriptor: one function, one interface, one link, one path
BaseSvc ==
    [file |-> "nsd.yml", parse |-> TRUE, syntax |-> TRUE,
     network_functions |-> NfList(<<Entry("fw", <<"v1">>)>>),
     ld_if |-> TRUE, ld_links |-> TRUE, ld_fwp |-> TRUE,
     ifaces |-> << <<"mgmt">> >>,
     links |-> << ELine(<<"mgmt">>, <<"v1", ":", "in">>) >>,
     fw_paths |-> << << <<"mgmt">>, <<"v1", ":", "in">> >> >>]

\* a service without links to its functions
LooseSvc == [BaseSvc EXCEPT !.ifaces = << <<"mgmt">>, <<"ext">> >>,
                            !.links = << ELine(<<"mgmt">>, <<"ext">>) >>,
                            !.fw_paths = << << <<"mgmt">>, <<"ext">> >> >>]

\* a service that uses the function fw twice, as v1 and as v2
TwinSvc == [LooseSvc EXCEPT !.network_functions =
                                NfList(<<Entry("fw", <<"v1">>), Entry("fw", <<"v2">>)>>)]

FlowEntries == {Entry("fw", <<"v1">>), Entry("lb", <<"v2">>), Entry("zz", <<"v1">>)}

FlowServices ==
    { [LooseSvc EXCEPT !.network_functions = nf] :
          nf \in {NfMissing, NfNull} \cup {NfList(items) : items \in SeqsUpTo(FlowEntries, MaxEntries)} }
    \cup { BaseSvc,
           TwinSvc,
           [BaseSvc EXCEPT !.parse = FALSE],
           [BaseSvc EXCEPT !.syntax = FALSE],
           [BaseSvc EXCEPT !.ld_if = FALSE],
           [BaseSvc EXCEPT !.ld_links = FALSE],
           [BaseSvc EXCEPT !.ld_fwp = FALSE],
           [BaseSvc EXCEPT !.links = << ELine(<<"mgmt">>, <<"v2", ":", "in">>) >>] }

FwFile == BaseFn("fw.yml", "fw")

LbFile == BaseFn("lb.yml", "lb")

FlowDirs ==
    { <<>>, <<FwFile>>, <<FwFile, LbFile>>,
      <<[FwFile EXCEPT !.syntax = FALSE], LbFile>>,
      <<FwFile, [LbFile EXCEPT !.units = {}]>>,
      <<[FwFile EXCEPT !.parse = FALSE], LbFile>>,
      <<[FwFile EXCEPT !.links = Ring3], [LbFile EXCEPT !.links = Ring3]>> }

NoFs == Everywhere(<<>>)

Project(nsd_files) == [vnfd_root |-> "prj", descriptor_extension |-> "yml", nsd_files |-> nsd_files]

\* a project that keeps its functions elsewhere, or names no extension
ProjectAt(vnfd_root, descriptor_extension, nsd_files) ==
    [vnfd_root |-> vnfd_root, descriptor_extension |-> descriptor_extension, nsd_files |-> nsd_files]

FunctionWorlds(Fns) == {World(<<f>>, <<>>, <<>>, NoFs, <<>>) : f \in Fns}

DirWorlds(Dirs) == {World(<<>>, <<d>>, <<>>, NoFs, <<>>) : d \in Dirs}

ServiceWorlds(Svcs, Dirs) == {World(<<>>, <<>>, <<s>>, Everywhere(d), <<>>) : s \in Svcs, d \in Dirs}

ProjectWorlds(Projects, Dirs) ==
    {World(<<>>, <<>>, <<>>, Everywhere(d), <<p>>) : p \in Projects, d \in Dirs}

\* one sound world of each kind
BaseWorlds ==
    FunctionWorlds({FwFile}) \cup DirWorlds({<<BaseFn("a.yml", "fw")>>})
    \cup ServiceWorlds({BaseSvc}, {<<FwFile>>})
    \cup ProjectWorlds({Project(<<BaseSvc>>)}, {<<FwFile>>})

FlowWorlds ==
    BaseWorlds
    \cup FunctionWorlds(FnVariants(FwFile))
    \cup DirWorlds(DirListings)
    \cup ServiceWorlds(FlowServices, FlowDirs)
    \cup ProjectWorlds({Project(<<>>), Project(<<BaseSvc>>), Project(<<BaseSvc, LooseSvc>>),
                        ProjectAt("", "yml", <<BaseSvc>>), ProjectAt("prj", "", <<BaseSvc>>),
                        ProjectAt("", "", <<BaseSvc, LooseSvc>>)},
                       {<<FwFile>>})

\* every connection point key of up to MaxKeyLen atoms
KeysOver(atoms) == UNION {[1..k -> atoms] : k \in 1..MaxKeyLen}

\* the link lists that put key k at each place beside a sound key g
KeyLinkLists(keys, g) ==
    UNION { { <<ELine(k, g)>>, <<ELine(g, k)>>,
              <<ELine(g, g), ELine(k, g)>>, <<ELine(g, g), ELine(g, k)>> } : k \in keys }

\* services with function v1 resolved and interfaces "x" and "x:x" declared
KeyServices ==
    { [BaseSvc EXCEPT !.ifaces = << <<"x">>, <<"x", ":", "x">> >>,
                      !.links = ls,
                      !.fw_paths = <<>>] :
          ls \in KeyLinkLists(KeysOver({"v1", "x", ":"}), <<"x">>) }

\* functions with the one unit u1
KeyFunctions ==
    { [FwFile EXCEPT !.links = ls] : ls \in KeyLinkLists(KeysOver({"u1", "x", ":"}), <<"in">>) }

KeyWorlds ==
    BaseWorlds \cup ServiceWorlds(KeyServices, {<<FwFile>>}) \cup FunctionWorlds(KeyFunctions)

Mgmt == <<"mgmt">>

Ext == <<"ext">>

V1In == <<"v1", ":", "in">>

\* a service over the connection points mgmt, ext and v1:in
TopoSvc(links, fw_paths) ==
    [BaseSvc EXCEPT !.ifaces = <<Mgmt, Ext>>, !.links = links, !.fw_paths = fw_paths]

Chain == <<ELine(Mgmt, Ext), ELine(Ext, V1In)>>

Triangle == <<ELine(Mgmt, Ext), ELine(Ext, V1In), ELine(V1In, Mgmt)>>

\* a walk round the triangle, a walk of two hops, a walk over a link that is
\* never there and a walk of one hop
SamplePaths == {<<Mgmt, Ext, V1In, Mgmt>>, <<Mgmt, Ext>>, <<Mgmt, Mgmt>>, <<Mgmt>>}

TopoServices ==
    { TopoSvc(ls, <<p>>) : ls \in {Chain, Triangle}, p \in SeqsUpTo({Mgmt, Ext, V1In}, MaxHops) }
    \cup { TopoSvc(ls, ps) : ls \in {<<>>, <<ELine(Mgmt, Ext)>>, <<ELan(Mgmt, Ext)>>, Chain, Triangle},
                             ps \in SeqsUpTo(SamplePaths, MaxPaths) }
    \cup { [TopoSvc(<<>>, <<>>) EXCEPT !.ifaces = <<>>, !.network_functions = NfList(<<>>)],
           [TopoSvc(Triangle, <<>>) EXCEPT !.ld_fwp = FALSE] }

\* a function over the connection points in, u1:a and u1:b
TopoFunctions ==
    { [FwFile EXCEPT !.ifaces = ifs, !.links = SelectSeq(Ring3, LAMBDA l : l \in ls)] :
          ifs \in {<<>>, << <<"in">>, <<"u1", ":", "a">>, <<"u1", ":", "b">> >>},
          ls \in SUBSET Range(Ring3) }
    \cup { [FwFile EXCEPT !.links = [i \in 1..3 |-> ELan(Ring3[i].pair[1], Ring3[i].pair[2])]] }

RingDirs ==
    { <<[FwFile EXCEPT !.links = Ring3]>>,
      <<FwFile, [LbFile EXCEPT !.links = Ring3]>>,
      <<[FwFile EXCEPT !.links = Ring3], [LbFile EXCEPT !.links = Ring3]>> }

TopoWorlds ==
    BaseWorlds
    \cup ServiceWorlds(TopoServices, {<<FwFile>>})
    \cup ServiceWorlds({BaseSvc, TopoSvc(Triangle, <<<<Mgmt, Ext, V1In, Mgmt>>>>)}, RingDirs)
    \cup FunctionWorlds(TopoFunctions)
    \cup DirWorlds(RingDirs)

Init == InitWith(FlowWorlds)

InitTopo == InitWith(TopoWorlds)

SpecTopo == InitTopo /\ [][Next]_vars

InitKeys == InitWith(KeyWorlds)

SpecKeys == InitKeys /\ [][Next]_vars

Spec == Init /\ [][Next]_vars

-----------------------------------------------------------------------------
(* What the checks read off a call.                                        *)

Called(op) == last.op = op

\* the positions of the log holding an event of this kind
Events(ev, scope) == {i \in 1..Len(last.log) : last.log[i].ev = ev /\ last.log[i].scope = scope}

Began(scope, stage) == \E i \in Events("begin", scope) : last.log[i].stage = stage

Ended(scope, stage, ok) ==
    \E i \in Events("end", scope) : last.log[i].stage = stage /\ last.log[i].ok = ok

StageRank(stage) == CASE stage = "syntax" -> 1 [] stage = "integrity" -> 2 [] stage = "topology" -> 3

StageOn(cfg, stage) ==
    CASE stage = "syntax" -> cfg.syntax
      [] stage = "integrity" -> cfg.integrity
      [] stage = "topology" -> cfg.topology

Stages == {"syntax", "integrity", "topology"}

\* the flags ask for a stage without the stage it depends on
DependencyBroken(cfg) == (cfg.integrity /\ ~cfg.syntax) \/ (cfg.topology /\ ~cfg.integrity)

-----------------------------------------------------------------------------
\* C1: with the flags in effect asking for integrity without syntax, or for
\* topology without integrity, each of validate_project, validate_service and
\* validate_function ends in sys.exit before it reads a descriptor or runs a
\* stage; with any other flags a call exits only through the service check of
\* the directory and extension, never through the stage-dependency check.
C1_StageDependency ==
    last.op # "none" =>
        /\ DependencyBroken(last.cfg) =>
               /\ last.res = "exit"
               /\ last.log = <<>>
               /\ ~alive
               /\ warnings_count = last.wc0
        /\ (~DependencyBroken(last.cfg) /\ last.res = "exit") =>
               /\ last.op \in {"validate_service", "validate_project"}
               /\ last.cfg.integrity \/ last.cfg.topology
               /\ dpath = "" \/ dext = ""

C1_Witness ==
    /\ Called("validate_project")
    /\ last.cfg.topology /\ ~last.cfg.integrity /\ last.cfg.syntax
    /\ last.res = "exit"

-----------------------------------------------------------------------------
\* the scope of the descriptor a call was given
TopScope == IF Called("validate_service") THEN "service" ELSE "function"

TopParsed == IF Called("validate_service") THEN world.nsd[1].parse ELSE world.fn[1].parse

\* C2: in a validate_service call and in a validate_function call on one file
\* the stages of the given descriptor begin in the order syntax, integrity,
\* topology; a stage begins only if its flag is on and every earlier stage whose
\* flag is on has passed in this call; a stage that fails makes the call return
\* None with no stage begun after it; and the call returns True exactly when the
\* descriptor was parsed and every stage whose flag is on has passed.
C2_StageOrder ==
    (last.op \in {"validate_service", "validate_function"} /\ last.res # "exit") =>
        LET B == Events("begin", TopScope)
            E == Events("end", TopScope)
            log == last.log
        IN  /\ \A i \in B : StageOn(last.cfg, log[i].stage)
            /\ \A i, j \in B : i < j => StageRank(log[i].stage) < StageRank(log[j].stage)
            /\ \A i \in B : \A s \in Stages :
                   (StageRank(s) < StageRank(log[i].stage) /\ StageOn(last.cfg, s)) =>
                       \E k \in E : k < i /\ log[k].stage = s /\ log[k].ok = "pass"
            /\ \A k \in E : log[k].ok = "fail" =>
                   /\ last.res = "None"
                   /\ \A i \in B : i < k
            /\ last.res = "True" <=>
                   /\ TopParsed
                   /\ \A s \in Stages : StageOn(last.cfg, s) => Ended(TopScope, s, "pass")

C2_Witness ==
    /\ Called("validate_service")
    /\ last.cfg.topology
    /\ Ended("service", "syntax", "pass")
    /\ Ended("service", "integrity", "fail")
    /\ ~Began("service", "topology")
    /\ last.res = "None"

-----------------------------------------------------------------------------
\* C3: with integrity on, a validate_service call that reaches the integrity
\* stage on a service whose function list is missing, or present and empty,
\* fails that stage: the call returns None and the topology stage never begins.
C3_EmptyFunctionListFails ==
    ( /\ Called("validate_service")
      /\ Began("service", "integrity")
      /\ LET nf == world.nsd[1].network_functions
         IN  nf.kind = "missing" \/ (nf.kind = "list" /\ nf.items = <<>>) ) =>
        /\ Ended("service", "integrity", "fail")
        /\ last.res = "None"
        /\ ~Began("service", "topology")

-----------------------------------------------------------------------------
\* the function descriptors found under the directory and extension of the call
Discovered == SelectSeq(Files(world.fs, last.cfg.dpath), LAMBDA f : f.ext = last.cfg.dext /\ f.parse)

Resolves(entry) ==
    \E i \in 1..Len(Discovered) :
        /\ Discovered[i].vendor = entry.vnf_vendor
        /\ Discovered[i].name = entry.vnf_name
        /\ Discovered[i].version = entry.vnf_version

\* C4: with integrity on, when an entry of the service's function list has an
\* id that no discovered function descriptor carries, validate_service fails
\* the integrity stage and returns None, and no entry at or after that one is
\* associated with the service.
C4_UnresolvedFunctionFails ==
    ( /\ Called("validate_service")
      /\ Began("service", "integrity")
      /\ world.nsd[1].network_functions.kind = "list" ) =>
        LET items == world.nsd[1].network_functions.items
        IN  \A n \in 1..Len(items) :
                ~Resolves(items[n]) =>
                    /\ Ended("service", "integrity", "fail")
                    /\ last.res = "None"
                    /\ \A i \in Events("associate", "service") : last.log[i].n < n

C4_Witness ==
    /\ Called("validate_service")
    /\ Began("service", "integrity")
    /\ world.nsd[1].network_functions.kind = "list"
    /\ Len(world.nsd[1].network_functions.items) = 2
    /\ Resolves(world.nsd[1].network_functions.items[1])
    /\ ~Resolves(world.nsd[1].network_functions.items[2])
    /\ \E i \in Events("associate", "service") : last.log[i].n = 1
    /\ last.res = "None"

-----------------------------------------------------------------------------
\* the files that discovery returns for the directory, in its order
DirFound == SelectSeq(world.dir[1], LAMBDA f : f.ext = last.cfg.dext)

\* validating this one file under the flags of the call returns True
FileValidates(f) == ValidateFunctionFile(last.cfg, f, 0).res = "True"

FirstFailing == CHOOSE i \in 1..Len(DirFound) :
                    ~FileValidates(DirFound[i]) /\ \A j \in 1..(i - 1) : FileValidates(DirFound[j])

\* C7: validate_function on a directory validates the discovered files one at a
\* time in discovery order; at the first file whose validation fails the call
\* returns None and no stage of a later file runs; the call returns True only
\* if every file validated.
C7_DirectoryFailFast ==
    (Called("validate_functions") /\ last.res # "exit") =>
        LET failing == {i \in 1..Len(DirFound) : ~FileValidates(DirFound[i])}
            stop == IF failing = {} THEN Len(DirFound) ELSE FirstFailing
            created == SelectSeq(last.log, LAMBDA e : e.ev = "create")
        IN  /\ Len(created) = stop
            /\ \A i \in 1..stop : created[i].who = DirFound[i].file
            /\ \A i \in 1..Len(last.log) : \E j \in 1..stop : last.log[i].who = DirFound[j].file
            /\ (failing # {} /\ ValidateFunctionFile(last.cfg, DirFound[stop], 0).res = "None")
                   => last.res = "None"
            /\ last.res = "True" <=> failing = {}

C7_Witness ==
    /\ Called("validate_functions")
    /\ Len(DirFound) = 2
    /\ ~FileValidates(DirFound[1])
    /\ FileValidates(DirFound[2])
    /\ last.cfg.integrity
    /\ Ended("function", "syntax", "pass")
    /\ last.res = "None"

-----------------------------------------------------------------------------
LinkCheck(scope, ok) == \E i \in Events("link_check", scope) : last.log[i].ok = ok

Separators(key) == Count(key, ":")

\* the part of a key before its first separator
Owner(key) == SubSeq(key, 1, IndexOf(key, ":") - 1)

\* a key of a service link names a declared interface or is vnf_id:name with
\* the vnf_id of a function of the service
ServiceKeyResolves(key) ==
    LET service == world.nsd[1]
    IN  \/ key \in Range(service.ifaces)
        \/ /\ Separators(key) = 1
           /\ \E n \in 1..Len(service.network_functions.items) :
                  service.network_functions.items[n].vnf_id = Owner(key)

\* C5: when validate_service checks the links of a service, the check passes if
\* and only if each of the two keys of every link is a declared service
\* interface or splits on ':' into exactly two parts, the first being the vnf_id
\* of a function resolved for the service; otherwise integrity fails and the
\* call returns None.
C5_ServiceLinkCheck ==
    (Called("validate_service") /\ Events("link_check", "service") # {}) =>
        LET links == world.nsd[1].links
            all == \A i \in 1..Len(links) : \A j \in 1..2 : ServiceKeyResolves(links[i].pair[j])
        IN  /\ LinkCheck("service", "pass") <=> all
            /\ ~all => (Ended("service", "integrity", "fail") /\ last.res = "None")

C5_Witness ==
    /\ Called("validate_service")
    /\ LinkCheck("service", "fail")
    /\ world.nsd[1].links = <<ELine(<<"x">>, <<"x">>), ELine(<<"x">>, <<"v1", ":", ":">>)>>
    /\ last.res = "None"

-----------------------------------------------------------------------------
\* C6 as stated: once the loaders of a function succeed, its link check fails
\* if and only if some key has exactly one ':' and the part before it is not a
\* loaded unit; keys without a separator and keys with more than one separator
\* never fail.
C6_OnlyQualifiedKeysFail ==
    (Called("validate_function") /\ Events("link_check", "function") # {}) =>
        LET function == world.fn[1]
        IN  LinkCheck("function", "fail") <=>
                \E i \in 1..Len(function.links) : \E j \in 1..2 :
                    LET key == function.links[i].pair[j]
                    IN  Separators(key) = 1 /\ Owner(key) \notin function.units

\* C6: once the loaders of a function succeed, its link check fails, and the
\* call returns None, if and only if some key holds at least one ':' and the
\* part before the first ':' is not a loaded unit; a key without a separator
\* never fails, and a key with more than one separator is tolerated only when
\* its first part is a loaded unit.
C6_SeparatedKeysNeedUnit ==
    (Called("validate_function") /\ Events("link_check", "function") # {}) =>
        LET function == world.fn[1]
            refused == \E i \in 1..Len(function.links) : \E j \in 1..2 :
                           LET key == function.links[i].pair[j]
                           IN  Separators(key) >= 1 /\ Owner(key) \notin function.units
        IN  /\ LinkCheck("function", "fail") <=> refused
            /\ refused => (Ended("function", "integrity", "fail") /\ last.res = "None")

C6_Witness ==
    /\ Called("validate_function")
    /\ LinkCheck("function", "fail")
    /\ world.fn[1].links = <<ELine(<<"x", ":", ":">>, <<"in">>)>>
    /\ last.res = "None"

-----------------------------------------------------------------------------
\* C8 as stated: the topology stage of a service ends in success whenever its
\* forwarding paths load, and the topology stage of a function always ends in
\* success, whatever warnings the graphs give rise to.
C8_TopologyAlwaysPasses ==
    /\ \A i \in Events("load", "service") :
           (last.log[i].stage = "forwarding_paths" /\ last.log[i].ok = "pass")
               => Ended("service", "topology", "pass")
    /\ \A i \in Events("end", "function") :
           last.log[i].stage = "topology" => last.log[i].ok = "pass"

-----------------------------------------------------------------------------
\* the service the call validates
TheService == IF Called("validate_project") THEN world.project[1].nsd_files[1] ELSE world.nsd[1]

\* the function descriptors the call can meet
KnownFunctions ==
    Range(world.fn) \cup UNION {Range(d) : d \in Range(world.dir)}
    \cup UNION {Range(world.fs[p]) : p \in DirPaths}

\* what the analysis of the n-th forwarding path of a service comes to
PathVerdict(service, n) ==
    LET trace == TracePath(AddLinks(EmptyGraph, service.links, "e-line"), service.fw_paths[n])
        fpg == AddPath(EmptyGraph, trace)
    IN  IF Count(trace, BREAK) > 0 THEN "break"
        ELSE IF Len(fpg.nodes) = 0 THEN "raise"
        ELSE IF CyclesFound(FindGraphCycles(fpg, fpg.nodes[1], <<>>, <<>>)) THEN "cycle"
        ELSE "nocycle"

GraphCyclic(function) ==
    LET graph == FunctionGraph(function, "e-line")
    IN  /\ Len(graph.nodes) > 0
        /\ CyclesFound(FindGraphCycles(graph, graph.nodes[1], <<>>, <<>>))

CyclicPaths == {i \in Events("path", "service") : last.log[i].ok = "cycle"}

CyclicGraphs == {i \in Events("graph", "function") : last.log[i].ok = "cycle"}

-----------------------------------------------------------------------------
\* C10 as stated: a validate_service that follows a validate_service under the
\* same configuration, on the same descriptor and directory, gives the same
\* result and leaves the warning counter where the first call left it.
C10_ServiceRerunSame ==
    (Called("validate_service") /\ last.prev # <<>>) =>
        /\ last.res = last.prev[1].res
        /\ warnings_count = last.prev[1].wc

-----------------------------------------------------------------------------
(* The graph routines on their own: a world holds a graph and either a     *)
(* start node for _find_graph_cycles or the hops of a forwarding path.     *)

GraphWorld(graph, node, hops) == [graph |-> graph, node |-> node, hops |-> hops]

\* Validator._find_graph_cycles(graph, node)
CallFindGraphCycles ==
    /\ last.op = "none"
    /\ world.node # <<>>
    /\ last' = [op |-> "_find_graph_cycles",
                res |-> FindGraphCycles(world.graph, world.node[1], <<>>, <<>>)]
    /\ UNCHANGED <<syntax, integrity, topology, dpath, dext, warnings_count, alive, world>>

\* lines 413-420: the trace of a path, whether it is skipped as invalid and
\* the number of breakpoints the warning reports
PathBreaksAtMostOne(graph, fw_path) ==
    LET trace == TracePath(graph, fw_path)
    IN  [trace |-> trace, invalid |-> Contains(trace, BREAK),
         breakpoints |-> IF Contains(trace, BREAK) THEN 1 ELSE 0]

PathBreaks(graph, fw_path) ==
    LET trace == TracePath(graph, fw_path)
    IN  [trace |-> trace, invalid |-> Contains(trace, BREAK), breakpoints |-> Count(trace, BREAK)]

CallTracePath ==
    /\ last.op = "none"
    /\ world.hops # <<>>
    /\ last' = [op |-> "trace_path", res |-> PathBreaks(world.graph, world.hops[1])]
    /\ UNCHANGED <<syntax, integrity, topology, dpath, dext, warnings_count, alive, world>>

NextGraphs ==
    \/ CallFindGraphCycles
    \/ CallTracePath

\* node names; NoName is the empty string
NoName == <<>>

NodeNames == {<<"a">>, <<"b">>, <<"c">>, <<"d">>}

\* the sequences over S without repetition, of the given lengths
Arrangements(S, lengths) ==
    UNION { {q \in [1..k -> S] : \A i, j \in 1..k : i # j => q[i] # q[j]} : k \in lengths }

\* the ring through the nodes of q in that order
Ring(q) == AddEdge(AddPath(EmptyGraph, q), q[Len(q)], q[1])

Rings == {Ring(q) : q \in Arrangements(NodeNames \cup {NoName}, 3..MaxRing)}

RECURSIVE AddEdges(_, _)
AddEdges(g, es) == IF es = <<>> THEN g ELSE AddEdges(AddEdge(g, Head(es)[1], Head(es)[2]), Tail(es))

SmallNames == {NoName, <<"a">>, <<"b">>}

\* every graph of up to MaxEdges edges over three names, self-loops included,
\* and the graphs of one node without edges
SmallGraphs ==
    ({AddEdges(EmptyGraph, es) : es \in SeqsUpTo(SmallNames \X SmallNames, MaxEdges)} \ {EmptyGraph})
    \cup {AddNode(EmptyGraph, n) : n \in SmallNames}

\* the graphs over a, b and c that the links of a service can make
LinkGraphs ==
    LET ls == <<ELine(<<"a">>, <<"b">>), ELine(<<"b">>, <<"c">>), ELine(<<"c">>, <<"a">>)>>
    IN  { AddLinks(AddNodes(EmptyGraph, ns), SelectSeq(ls, LAMBDA l : l \in keep), "e-line") :
              ns \in {<<>>, << <<"a">>, <<"b">>, <<"c">> >>}, keep \in SUBSET Range(ls) }

GraphWorlds ==
    UNION { {GraphWorld(g, <<g.nodes[i]>>, <<>>) : i \in 1..Len(g.nodes)} : g \in Rings \cup SmallGraphs }
    \cup { GraphWorld(g, <<>>, <<p>>) :
               g \in LinkGraphs, p \in SeqsUpTo({<<"a">>, <<"b">>, <<"c">>}, MaxHops) }

InitGraphs ==
    /\ syntax = TRUE
    /\ integrity = TRUE
    /\ topology = TRUE
    /\ dext = "yml"
    /\ dpath = "."
    /\ warnings_count = 0
    /\ alive = TRUE
    /\ world \in GraphWorlds
    /\ last = NoCall(0)

SpecGraphs == InitGraphs /\ [][NextGraphs]_vars

-----------------------------------------------------------------------------
RECURSIVE SumLen(_)
SumLen(ss) == IF ss = <<>> THEN 0 ELSE Len(Head(ss)) + SumLen(Tail(ss))

SelfLoops(g) == {n \in Range(g.nodes) : Contains(Neighbors(g, n), n)}

Components(g) == {ReachFrom(g, {n}) : n \in Range(g.nodes)}

\* n >= 3 nodes in one circle: connected, every node with exactly two others
IsRing(g) ==
    /\ Len(g.nodes) >= 3
    /\ SelfLoops(g) = {}
    /\ Cardinality(Components(g)) = 1
    /\ \A i \in 1..Len(g.adj) : Len(g.adj[i]) = 2

\* a forest: no self-loop, and as many edges as nodes less components
IsForest(g) ==
    /\ SelfLoops(g) = {}
    /\ SumLen(g.adj) = 2 * (Len(g.nodes) - Cardinality(Components(g)))

\* C11 as stated: on a ring of three or more nodes, from any start node, the
\* cycle detector reports a cycle whose nodes are exactly the nodes of the
\* ring; on a graph without cycles, a single node included, from any start
\* node, it reports no cycle.
C11_RingsAndForests ==
    Called("_find_graph_cycles") =>
        /\ IsRing(world.graph) =>
               CyclesFound(last.res) /\ Range(last.res[1]) = Range(world.graph.nodes)
        /\ IsForest(world.graph) => ~CyclesFound(last.res)

-----------------------------------------------------------------------------
\* the hop pairs of a path that have no edge in the graph, by first hop
MissingPairs(g, p) == {i \in 1..(Len(p) - 1) : ~HasEdge(g, p[i], p[i + 1])}

\* where the i-th hop lands in a trace with a marker after each missing pair
HopPlace(g, p, i) == i + Cardinality({j \in MissingPairs(g, p) : j < i})

-----------------------------------------------------------------------------
\* the configuration validate_project hands on: the project's own directory
\* and extension
ProjectCfg(cfg, project) ==
    [cfg EXCEPT !.dpath = project.vnfd_root, !.dext = project.descriptor_extension]

\* C13 as stated: validate_project on a project with no service descriptor,
\* or with more than one, returns a falsy result without running a stage on
\* any descriptor; with exactly one it returns what validate_service returns
\* on that descriptor.
C13_ProjectCandidates ==
    (Called("validate_project") /\ last.res # "exit") =>
        LET project == world.project[1]
        IN  /\ Len(project.nsd_files) # 1 =>
                   /\ last.res = "None"
                   /\ Events("begin", "service") = {}
                   /\ Events("begin", "function") = {}
            /\ Len(project.nsd_files) = 1 =>
                   last.res = ValidateService(ProjectCfg(last.cfg, project),
                                              <<project.nsd_files[1]>>,
                                              Files(world.fs, project.vnfd_root),
                                              last.wc0).res

-----------------------------------------------------------------------------
\* C14 as stated: under flags that satisfy the stage dependencies no
\* exception escapes validate_service or validate_function, whatever the
\* descriptors hold, and a descriptor that cannot be parsed gives a falsy
\* result.
C14_NoExceptionEscapes ==
    ((Called("validate_service") \/ Called("validate_function")) /\ ~DependencyBroken(last.cfg)) =>
        /\ last.res # "raise"
        /\ (Called("validate_function") /\ ~world.fn[1].parse) => last.res = "None"
        /\ (Called("validate_service") /\ ~world.nsd[1].parse) => last.res \in {"None", "exit"}

-----------------------------------------------------------------------------
\* the positions of the log where the service graph is written to a file
Exports == {i \in 1..Len(last.log) : last.log[i].ev = "export"}

\* C15: a call writes the service graph at most once, to a file named after
\* the service, and does so exactly when the topology stage of the service
\* runs to its end; the export comes after the analysis of every forwarding
\* path; nothing is exported when topology is off, when a stage before it
\* failed, when the forwarding paths did not load, or by a call that validates
\* functions only.
C15_ExportOnce ==
    /\ Cardinality(Exports) <= 1
    /\ Exports # {} <=> Ended("service", "topology", "pass")
    /\ (Called("validate_function") \/ Called("validate_functions")) => Exports = {}
    /\ ~last.cfg.topology => Exports = {}
    /\ \A e \in Exports :
           /\ last.log[e].scope = "service"
           /\ last.log[e].who = TheService.file
           /\ Ended("service", "syntax", "pass") /\ Ended("service", "integrity", "pass")
           /\ TheService.ld_fwp
           /\ Cardinality(Events("path", "service")) = Len(TheService.fw_paths)
           /\ \A i \in Events("path", "service") : i < e

C15_Witness ==
    /\ Called("validate_service")
    /\ Cardinality(Exports) = 1
    /\ Cardinality(Events("path", "service")) = 2
    /\ last.res = "True"

-----------------------------------------------------------------------------
Disconnected == {i \in Events("connected", "service") : last.log[i].ok = "no"}

BrokenPaths == {i \in Events("path", "service") : last.log[i].ok = "break"}

\* C16 as stated: a call raises the warning counter once for each service
\* graph found disconnected, each forwarding path with a BREAK in its trace
\* and each cycle detected, so a counter that reads zero after a call means
\* that none of the three occurred.
C16_EveryWarningCounted ==
    /\ warnings_count = last.wc0 + Cardinality(Disconnected) + Cardinality(BrokenPaths)
                                 + Cardinality(CyclicPaths) + Cardinality(CyclicGraphs)
    /\ warnings_count = 0 =>
           Disconnected = {} /\ BrokenPaths = {} /\ CyclicPaths = {} /\ CyclicGraphs = {}

-----------------------------------------------------------------------------
\* the walk as specified: at a node already in the trace, the slice of the
\* trace from that node on; else on to the first neighbour other than the
\* node just left, or no cycle if there is none.  left is <<>> at the start.
RECURSIVE SpecifiedWalk(_, _, _, _)
SpecifiedWalk(graph, node, left, trace) ==
    IF Contains(trace, node)
    THEN <<SubSeq(trace, IndexOf(trace, node), Len(trace))>>
    ELSE LET eligible == SelectSeq(Neighbors(graph, node), LAMBDA n : left = <<>> \/ <<n>> # left)
         IN  IF eligible = <<>> THEN <<>>
             ELSE SpecifiedWalk(graph, eligible[1], <<node>>, Append(trace, node))

\* C17 as stated: on every graph, self-loops included, and from every start
\* node _find_graph_cycles returns exactly what the specified single-branch
\* walk returns.
C17_SingleBranchWalk ==
    Called("_find_graph_cycles") =>
        last.res = SpecifiedWalk(world.graph, world.node[1], <<>>, <<>>)

-----------------------------------------------------------------------------
\* the functions resolved for the service of a validate_service call
ResolvedFunctions ==
    LoadServiceFunctions(last.cfg, world.nsd[1], Files(world.fs, last.cfg.dpath)).functions

\* the events that follow the link check of the service
AfterLinkCheck ==
    LET c == CHOOSE c \in Events("link_check", "service") : TRUE
    IN  SubSeq(last.log, c + 1, Len(last.log))

\* C18: with integrity on, validate_service runs validate_function, under the
\* flags of the call, on the functions resolved for the service, in their
\* order and up to the first that does not return True; no function is
\* validated unless every link of the service passed the connection point
\* check; and the integrity stage of the service passes only if the link check
\* passed and every resolved function validates.
C18_ServiceFunctionsValidated ==
    (Called("validate_service") /\ Began("service", "integrity")) =>
        LET fns == ResolvedFunctions
            failing == {i \in 1..Len(fns) : ~FileValidates(fns[i].fn)}
            stop == IF failing = {} THEN Len(fns)
                    ELSE CHOOSE i \in failing : \A j \in failing : i <= j
        IN  /\ last.cfg.integrity
            /\ \A i \in Events("begin", "function") :
                   /\ \E c \in Events("link_check", "service") : c < i /\ last.log[c].ok = "pass"
                   /\ StageOn(last.cfg, last.log[i].stage)
            /\ LinkCheck("service", "pass") =>
                   LET created == SelectSeq(AfterLinkCheck,
                                            LAMBDA e : e.ev = "create" /\ e.scope = "function")
                   IN  /\ Len(created) = stop
                       /\ \A i \in 1..stop : created[i].who = fns[i].fn.file
                       /\ \A i \in 1..stop : \A stage \in Stages :
                              (FileValidates(fns[i].fn) /\ StageOn(last.cfg, stage)) =>
                                  \E b \in Events("begin", "function") :
                                      last.log[b].who = fns[i].fn.file /\ last.log[b].stage = stage
            /\ Ended("service", "integrity", "pass") <=> (LinkCheck("service", "pass") /\ failing = {})

C18_Witness ==
    /\ Called("validate_service")
    /\ LinkCheck("service", "pass")
    /\ Len(ResolvedFunctions) = 2
    /\ ~FileValidates(ResolvedFunctions[1].fn)
    /\ FileValidates(ResolvedFunctions[2].fn)
    /\ Len(SelectSeq(AfterLinkCheck, LAMBDA e : e.ev = "create")) = 1
    /\ Ended("service", "integrity", "fail")
    /\ last.res = "None"

-----------------------------------------------------------------------------
\* integrity or topology is asked for and the directory or the extension is
\* empty
NoDirectory(cfg) == (cfg.integrity \/ cfg.topology) /\ (cfg.dpath = "" \/ cfg.dext = "")

\* C19: validate_service ends in sys.exit, before it reads the descriptor,
\* whenever integrity or topology is on and the directory or the extension
\* of the instance is empty; validate_function, on a file or on a directory,
\* never exits for an empty directory or extension; validate_project makes
\* the check on the directory and extension of the project, which it has put
\* in place of the instance's before it hands over to validate_service.
C19_DirectoryCheck ==
    /\ Called("validate_service") =>
           /\ last.res = "exit" <=> (DependencyBroken(last.cfg) \/ NoDirectory(last.cfg))
           /\ last.res = "exit" => last.log = <<>>
    /\ (Called("validate_function") \/ Called("validate_functions")) =>
           (last.res = "exit" <=> DependencyBroken(last.cfg))
    /\ Called("validate_project") =>
           LET project == world.project[1]
           IN  /\ (last.res = "exit" /\ ~DependencyBroken(last.cfg)) =>
                      NoDirectory(ProjectCfg(last.cfg, project))
               /\ (~DependencyBroken(last.cfg) /\ project.nsd_files # <<>>) =>
                      (last.res = "exit" <=> NoDirectory(ProjectCfg(last.cfg, project)))
               /\ ~DependencyBroken(last.cfg) =>
                      dpath = project.vnfd_root /\ dext = project.descriptor_extension

\* validate_project goes through although the instance has no directory
C19_Witness ==
    /\ Called("validate_project")
    /\ last.cfg.dpath = ""
    /\ last.cfg.integrity
    /\ world.project[1].vnfd_root = "prj"
    /\ last.res = "True"

-----------------------------------------------------------------------------
\* how often the store was asked to make an entity of a file
Creations(who) == Cardinality({i \in 1..Len(last.log) : last.log[i].ev = "create" /\ last.log[i].who = who})

\* how often a loader step ran on the descriptor of a file
Loads(who, step) ==
    Cardinality({i \in 1..Len(last.log) :
                     last.log[i].ev = "load" /\ last.log[i].who = who /\ last.log[i].stage = step})

\* C20 as stated: in one validate_service call the store makes an entity of
\* each descriptor file at most once and each loader step runs at most once
\* on each descriptor, also when two vnf_ids of the service name the same
\* function descriptor.
C20_CreatedAndLoadedOnce ==
    Called("validate_service") =>
        \A i \in 1..Len(last.log) :
            /\ last.log[i].ev = "create" => Creations(last.log[i].who) <= 1
            /\ last.log[i].ev = "load" => Loads(last.log[i].who, last.log[i].stage) <= 1

-----------------------------------------------------------------------------
(* _find_graph_cycles call by call: the frame of the invocation under way, *)
(* the number of invocations made, and the result once one has returned.   *)

Frame(node, prev, backtrace, calls, done, res) ==
    [op |-> "walk", node |-> node, prev |-> prev, backtrace |-> backtrace,
     calls |-> calls, done |-> done, res |-> res]

\* the body of _find_graph_cycles without "backtrace.append(node)"
InvokeForgetful(graph, f) ==
    LET all == Neighbors(graph, f.node)
        neighbors == IF f.prev # <<>> /\ f.prev[1] # <<>>
                     THEN RemoveFirst(all, f.prev[1])
                     ELSE all
    IN  IF ~(Len(neighbors) > 0)
        THEN Frame(f.node, f.prev, f.backtrace, f.calls + 1, TRUE, <<>>)
        ELSE IF Contains(f.backtrace, f.node)
        THEN Frame(f.node, f.prev, f.backtrace, f.calls + 1, TRUE,
                   <<SubSeq(f.backtrace, IndexOf(f.backtrace, f.node), Len(f.backtrace))>>)
        ELSE Frame(neighbors[1], <<f.node>>, f.backtrace, f.calls + 1, FALSE, <<>>)

\* one invocation, lines 543-570: it returns, or it hands on to the first
\* neighbour with the node appended to the backtrace
Invoke(graph, f) ==
    LET all == Neighbors(graph, f.node)
        neighbors == IF f.prev # <<>> /\ f.prev[1] # <<>>
                     THEN RemoveFirst(all, f.prev[1])
                     ELSE all
    IN  IF ~(Len(neighbors) > 0)
        THEN Frame(f.node, f.prev, f.backtrace, f.calls + 1, TRUE, <<>>)
        ELSE IF Contains(f.backtrace, f.node)
        THEN Frame(f.node, f.prev, f.backtrace, f.calls + 1, TRUE,
                   <<SubSeq(f.backtrace, IndexOf(f.backtrace, f.node), Len(f.backtrace))>>)
        ELSE Frame(neighbors[1], <<f.node>>, Append(f.backtrace, f.node), f.calls + 1, FALSE, <<>>)

\* the call Validator._find_graph_cycles(graph, node) is made
StartWalk ==
    /\ last.op = "none"
    /\ world.node # <<>>
    /\ last' = Frame(world.node[1], <<>>, <<>>, 0, FALSE, <<>>)
    /\ UNCHANGED <<syntax, integrity, topology, dpath, dext, warnings_count, alive, world>>

\* the invocation under way runs
WalkStep ==
    /\ last.op = "walk"
    /\ ~last.done
    /\ last' = Invoke(world.graph, last)
    /\ UNCHANGED <<syntax, integrity, topology, dpath, dext, warnings_count, alive, world>>

NextWalk ==
    \/ StartWalk
    \/ WalkStep

\* an invocation under way is not held up for ever
SpecWalk == InitGraphs /\ [][NextWalk]_vars /\ WF_vars(WalkStep)

\* the walk ends with the result of the whole call
WalkAgrees ==
    (Called("walk") /\ last.done) =>
        last.res = FindGraphCycles(world.graph, world.node[1], <<>>, <<>>)

\* C21: on every graph and from every start node the walk of the cycle
\* detector ends, after at most (number of nodes + 1) invocations: every
\* invocation either returns or hands on with a node appended to the trace
\* that was not in it.
C21_WalkTerminates ==
    /\ [](Called("walk") =>
              /\ last.calls <= Len(world.graph.nodes) + 1
              /\ \A i, j \in 1..Len(last.backtrace) : i # j => last.backtrace[i] # last.backtrace[j])
    /\ [][(Called("walk") /\ last'.op = "walk") =>
              \/ last'.done
              \/ /\ ~Contains(last.backtrace, last.node)
                 /\ last'.backtrace = Append(last.backtrace, last.node)]_vars
    /\ (Called("walk") ~> (Called("walk") /\ last.done))

\* a ring of MaxRing nodes walked all the way round
C21_Witness ==
    /\ Called("walk")
    /\ last.done
    /\ IsRing(world.graph)
    /\ last.calls = Len(world.graph.nodes) + 1
    /\ Len(world.graph.nodes) = MaxRing

-----------------------------------------------------------------------------
\* a list of nodes that is a cycle of the graph
RealCycle(g, c) ==
    /\ Len(c) >= 3
    /\ \A i, j \in 1..Len(c) : i # j => c[i] # c[j]
    /\ \A i \in 1..(Len(c) - 1) : HasEdge(g, c[i], c[i + 1])
    /\ HasEdge(g, c[Len(c)], c[1])

-----------------------------------------------------------------------------
(* Worlds that hold a function file, a directory, a service and a project  *)
(* at once, the directory "." and the project's directory "prj" holding    *)
(* different files.                                                        *)

MixedFs(here, there) == [p \in DirPaths |-> IF p = "prj" THEN there ELSE here]

FrameWorlds ==
    BaseWorlds
    \cup { World(<<FwFile>>, << <<BaseFn("a.yml", "fw")>> >>, <<BaseSvc>>, MixedFs(here, there), <<p>>) :
               here \in {<<>>, <<FwFile>>, <<LbFile>>},
               there \in {<<>>, <<FwFile>>, <<LbFile>>},
               p \in {Project(<<BaseSvc>>), Project(<<>>),
                      ProjectAt("", "yml", <<BaseSvc>>), ProjectAt("prj", "json", <<BaseSvc>>)} }

InitFrame == InitWith(FrameWorlds)

SpecFrame == InitFrame /\ [][Next]_vars

\* C23: validate_project, once past the stage-dependency check, leaves the
\* project's directory and extension in the instance, whatever it returns,
\* and leaves the flags alone; validate_service and validate_function, on a
\* file or on a directory, change neither the flags nor the directory nor the
\* extension; so a validate_service that follows validate_project runs with
\* the project's directory and extension and resolves the functions of the
\* service among the files found there.
C23_ProjectLeavesDirectory ==
    [][/\ (last'.op = "validate_project" /\ ~DependencyBroken(last'.cfg)) =>
              /\ dpath' = world.project[1].vnfd_root
              /\ dext' = world.project[1].descriptor_extension
              /\ UNCHANGED <<syntax, integrity, topology>>
       /\ (last'.op = "validate_project" /\ DependencyBroken(last'.cfg)) =>
              UNCHANGED <<syntax, integrity, topology, dpath, dext>>
       /\ last'.op \in {"validate_service", "validate_function", "validate_functions"} =>
              UNCHANGED <<syntax, integrity, topology, dpath, dext>>
       /\ (last.op = "validate_project" /\ last.res # "exit" /\ last'.op = "validate_service") =>
              /\ last'.cfg.dpath = world.project[1].vnfd_root
              /\ last'.cfg.dext = world.project[1].descriptor_extension
              /\ \A i \in 1..Len(last'.log) :
                     (last'.log[i].ev = "create" /\ last'.log[i].scope = "function") =>
                         \E f \in Range(Files(world.fs, world.project[1].vnfd_root)) :
                             /\ f.file = last'.log[i].who
                             /\ f.ext = world.project[1].descriptor_extension
      ]_vars

\* configured for ".", where fw is not to be found, validate_service passes
\* with fw taken from the project's directory
C23_Witness ==
    /\ Called("validate_service")
    /\ last.res = "True"
    /\ last.cfg.dpath = "prj"
    /\ dpath = "prj"
    /\ \A f \in Range(world.fs["."]) : f.name # "fw"
    /\ \E i \in Events("create", "function") : last.log[i].who = "fw.yml"

====
